---- MODULE Spec2Model ----
(***************************************************************************)
(* The self-balancing binary search tree of                                *)
(* src/src/data_structures/binary_search_tree.rs.                          *)
(*                                                                         *)
(* Nodes live in an arena: a node reference (an Rc in the source) is an    *)
(* index 1..n into the sequences id, value, one_side_depth, parent and     *)
(* nodes, in allocation order, and None (0) is an empty Option / a Weak    *)
(* that does not upgrade.  The id index (the HashMap) maps ids to node     *)
(* references.  Directions Left and Right are the slots 1 and 2 of a       *)
(* node's children (0 and 1 in the source).                                *)
(***************************************************************************)
EXTENDS Integers, Sequences, FiniteSets, TLC

VARIABLES head, tree, id, value, one_side_depth, parent, nodes,
          panicked, rotations, history, ret, pos, sought

(* The queue of src/src/data_structures/queue.rs, with the values added    *)
(* and taken so far and the outcome of the last take.                      *)
VARIABLES queue, added, taken, took

(* The arguments and the result of a call of one of the free functions of  *)
(* src/src/algorithms.                                                     *)
VARIABLES input, output

(* The BasicTree of src/src/data_structures/tree.rs and the arguments of   *)
(* the last insert into it.                                                *)
VARIABLES basic_tree, basic_call

treeVars == <<head, tree, id, value, one_side_depth, parent, nodes>>
queueVars == <<queue, added, taken, took>>
callVars == <<input, output>>
basicVars == <<basic_tree, basic_call>>
vars == <<head, tree, id, value, one_side_depth, parent, nodes,
          panicked, rotations, history, ret, pos, sought,
          queue, added, taken, took, input, output,
          basic_tree, basic_call>>

(* Bounds of the model. *)
MaxNodes == 6
MaxValue == 3

Ids == 1..MaxNodes
Values == 1..MaxValue

None == 0
Left == 1
Right == 2

(* Variant: the opposite direction is not taken. *)
get_opposite_same(direction) == direction

get_opposite(direction) == IF direction = Left THEN Right ELSE Left

(* Variant: the two signs are swapped. *)
get_depth_swapped(direction) == IF direction = Left THEN 1 ELSE -1

get_depth(direction) == IF direction = Left THEN -1 ELSE 1

(* The tree as one value: the fields of BinarySearchTree and of its nodes, *)
(* whether an unwrap has failed, and the rotations of the running insert.  *)
Self ==
  [head |-> head, tree |-> tree, id |-> id, value |-> value,
   one_side_depth |-> one_side_depth, parent |-> parent, nodes |-> nodes,
   panicked |-> panicked, rotations |-> rotations]

(* Variant: the head is not registered in the index. *)
from_head_unregistered(head_id, head_value) ==
  [head |-> 1, tree |-> <<>>, id |-> <<head_id>>,
   value |-> <<head_value>>, one_side_depth |-> <<0>>,
   parent |-> <<None>>, nodes |-> << <<None, None>> >>,
   panicked |-> FALSE, rotations |-> <<>>]

from_head(head_id, head_value) ==
  [head |-> 1, tree |-> (head_id :> 1), id |-> <<head_id>>,
   value |-> <<head_value>>, one_side_depth |-> <<0>>,
   parent |-> <<None>>, nodes |-> << <<None, None>> >>,
   panicked |-> FALSE, rotations |-> <<>>]

(* Variant: a present id yields the head instead of its own node. *)
get_head(t, node_id) ==
  IF node_id \in DOMAIN t.tree THEN t.head ELSE None

get(t, node_id) ==
  IF node_id \in DOMAIN t.tree THEN t.tree[node_id] ELSE None

len(t) == Cardinality(DOMAIN t.tree)

(* Variant: the two results are swapped. *)
get_directions_swapped(t, p, child) ==
  LET left == t.nodes[p][Left]
  IN IF left # None /\ t.id[left] = t.id[child] THEN Right ELSE Left

get_directions(t, p, child) ==
  LET left == t.nodes[p][Left]
  IN IF left # None /\ t.id[left] = t.id[child] THEN Left ELSE Right

(* Variant: the comparison is reversed, smaller values go right. *)
RECURSIVE placement_reversed(_, _, _)
placement_reversed(t, parent_id, v) ==
  IF parent_id \notin DOMAIN t.tree
  THEN [found |-> FALSE, direction |-> Left, parent |-> None]
  ELSE LET p == t.tree[parent_id]
           direction == IF v < t.value[p] THEN Right ELSE Left
           child_node == t.nodes[p][direction]
       IN IF child_node = None
          THEN [found |-> TRUE, direction |-> direction, parent |-> p]
          ELSE placement_reversed(t, t.id[child_node], v)

(* The loop of insert: from the node registered under parent_id, go right  *)
(* when value > parent.value and left otherwise, until the chosen slot is  *)
(* empty.  The index lookup is an unwrap: an id missing from the index     *)
(* ends the call.                                                          *)
RECURSIVE placement(_, _, _)
placement(t, parent_id, v) ==
  IF parent_id \notin DOMAIN t.tree
  THEN [found |-> FALSE, direction |-> Left, parent |-> None]
  ELSE LET p == t.tree[parent_id]
           direction == IF v > t.value[p] THEN Right ELSE Left
           child_node == t.nodes[p][direction]
       IN IF child_node = None
          THEN [found |-> TRUE, direction |-> direction, parent |-> p]
          ELSE placement(t, t.id[child_node], v)

(* Variant: the moved child keeps its old parent link. *)
simple_rotation_relink_stale_parent(t, first_level_node, balance_direction) ==
  LET opposite_direction == get_opposite(balance_direction)
      second_level_node == t.nodes[first_level_node][balance_direction]
      second_level_node_opposite_child ==
        t.nodes[second_level_node][opposite_direction]
  IN [t EXCEPT
        !.nodes = [@ EXCEPT
          ![first_level_node][balance_direction]
              = second_level_node_opposite_child,
          ![second_level_node][opposite_direction] = first_level_node],
        !.one_side_depth = [@ EXCEPT ![second_level_node] = 0,
                                     ![first_level_node] = 0]]

(* Variant: the two balance counters are not reset. *)
simple_rotation_relink_keeps_depth(t, first_level_node, balance_direction) ==
  LET opposite_direction == get_opposite(balance_direction)
      second_level_node == t.nodes[first_level_node][balance_direction]
      second_level_node_opposite_child ==
        t.nodes[second_level_node][opposite_direction]
  IN [t EXCEPT
        !.parent = IF second_level_node_opposite_child # None
                   THEN [@ EXCEPT ![second_level_node_opposite_child]
                                    = first_level_node]
                   ELSE @,
        !.nodes = [@ EXCEPT
          ![first_level_node][balance_direction]
              = second_level_node_opposite_child,
          ![second_level_node][opposite_direction] = first_level_node]]

(* First half of simple_rotation: the opposite child of the second node   *)
(* moves under the first node, the first node moves under the second node, *)
(* and both counters are reset.                                            *)
simple_rotation_relink(t, first_level_node, balance_direction) ==
  LET opposite_direction == get_opposite(balance_direction)
      second_level_node == t.nodes[first_level_node][balance_direction]
      second_level_node_opposite_child ==
        t.nodes[second_level_node][opposite_direction]
  IN [t EXCEPT
        !.parent = IF second_level_node_opposite_child # None
                   THEN [@ EXCEPT ![second_level_node_opposite_child]
                                    = first_level_node]
                   ELSE @,
        !.nodes = [@ EXCEPT
          ![first_level_node][balance_direction]
              = second_level_node_opposite_child,
          ![second_level_node][opposite_direction] = first_level_node],
        !.one_side_depth = [@ EXCEPT ![second_level_node] = 0,
                                     ![first_level_node] = 0]]

(* Variant: a rotation at the root does not replace the head. *)
simple_rotation_reconnect_keeps_head(t, first_level_node, second_level_node) ==
  LET parent_of_three == t.parent[first_level_node]
      t1 == IF parent_of_three = None
            THEN [t EXCEPT !.parent = [@ EXCEPT ![second_level_node] = None]]
            ELSE LET insert_direction_for_parent_of_three ==
                       get_directions(t, parent_of_three, first_level_node)
                 IN [t EXCEPT
                       !.parent = [@ EXCEPT ![second_level_node]
                                              = parent_of_three],
                       !.nodes = [@ EXCEPT
                         ![parent_of_three]
                          [insert_direction_for_parent_of_three]
                             = second_level_node]]
  IN [t1 EXCEPT !.parent = [@ EXCEPT ![first_level_node]
                                       = second_level_node]]

(* Second half of simple_rotation: the second node takes the place the     *)
(* first node had (the head, or a slot of parent_of_three), and becomes    *)
(* the parent of the first node.                                           *)
simple_rotation_reconnect(t, first_level_node, second_level_node) ==
  LET parent_of_three == t.parent[first_level_node]
      t1 == IF parent_of_three = None
            THEN [t EXCEPT !.parent = [@ EXCEPT ![second_level_node] = None],
                           !.head = second_level_node]
            ELSE LET insert_direction_for_parent_of_three ==
                       get_directions(t, parent_of_three, first_level_node)
                 IN [t EXCEPT
                       !.parent = [@ EXCEPT ![second_level_node]
                                              = parent_of_three],
                       !.nodes = [@ EXCEPT
                         ![parent_of_three]
                          [insert_direction_for_parent_of_three]
                             = second_level_node]]
  IN [t1 EXCEPT !.parent = [@ EXCEPT ![first_level_node]
                                       = second_level_node]]

simple_rotation(t, first_level_node, balance_direction) ==
  IF t.panicked THEN t
  ELSE LET second_level_node == t.nodes[first_level_node][balance_direction]
       IN IF second_level_node = None THEN [t EXCEPT !.panicked = TRUE]
          ELSE simple_rotation_reconnect(
                 simple_rotation_relink(t, first_level_node,
                                        balance_direction),
                 first_level_node, second_level_node)

(* Variant: the child taken from the third node is not handed to the     *)
(* second node, whose slot is left empty.                                  *)
double_rotation_drops_child(t, first_level_node, balance_direction) ==
  LET opposite_direction == get_opposite(balance_direction)
      second_level_node == t.nodes[first_level_node][balance_direction]
  IN IF second_level_node = None THEN [t EXCEPT !.panicked = TRUE]
     ELSE
     LET third_level_node == t.nodes[second_level_node][opposite_direction]
     IN IF third_level_node = None THEN [t EXCEPT !.panicked = TRUE]
        ELSE
        LET third_level_node_same_line_child ==
              t.nodes[third_level_node][balance_direction]
        IN [t EXCEPT
              !.one_side_depth = [@ EXCEPT
                ![first_level_node] = get_depth(balance_direction) * 2,
                ![second_level_node] = get_depth(balance_direction),
                ![third_level_node] = 0],
              !.parent = [IF third_level_node_same_line_child # None
                          THEN [@ EXCEPT ![third_level_node_same_line_child]
                                           = second_level_node]
                          ELSE @
                          EXCEPT ![second_level_node] = third_level_node,
                                 ![third_level_node] = first_level_node],
              !.nodes = [@ EXCEPT
                ![second_level_node][opposite_direction] = None,
                ![third_level_node][balance_direction] = second_level_node,
                ![first_level_node][balance_direction] = third_level_node]]

double_rotation(t, first_level_node, balance_direction) ==
  LET opposite_direction == get_opposite(balance_direction)
      second_level_node == t.nodes[first_level_node][balance_direction]
  IN IF second_level_node = None THEN [t EXCEPT !.panicked = TRUE]
     ELSE
     LET third_level_node == t.nodes[second_level_node][opposite_direction]
     IN IF third_level_node = None THEN [t EXCEPT !.panicked = TRUE]
        ELSE
        LET third_level_node_same_line_child ==
              t.nodes[third_level_node][balance_direction]
        IN [t EXCEPT
              !.one_side_depth = [@ EXCEPT
                ![first_level_node] = get_depth(balance_direction) * 2,
                ![second_level_node] = get_depth(balance_direction),
                ![third_level_node] = 0],
              !.parent = [IF third_level_node_same_line_child # None
                          THEN [@ EXCEPT ![third_level_node_same_line_child]
                                           = second_level_node]
                          ELSE @
                          EXCEPT ![second_level_node] = third_level_node,
                                 ![third_level_node] = first_level_node],
              !.nodes = [@ EXCEPT
                ![second_level_node][opposite_direction]
                    = third_level_node_same_line_child,
                ![third_level_node][balance_direction] = second_level_node,
                ![first_level_node][balance_direction] = third_level_node]]

(* Variant: a rotation already starts at a counter of 1 or -1. *)
RECURSIVE climb_eager(_, _, _)
climb_eager(t, parent_child, p) ==
  IF p = None THEN t
  ELSE
  LET direction == get_directions(t, p, parent_child)
      additional_depth == IF direction = Left THEN -1 ELSE 1
      new_depth == t.one_side_depth[p] + additional_depth
      t1 == [t EXCEPT !.one_side_depth = [@ EXCEPT ![p] = new_depth]]
      child_depth == t1.one_side_depth[parent_child]
      is_simple_rotation == \/ new_depth >= 1 /\ child_depth > 0
                            \/ new_depth <= -1 /\ child_depth < 0
      is_double_rotation == \/ new_depth >= 1 /\ child_depth < 0
                            \/ new_depth <= -1 /\ child_depth > 0
      event(kind) == [kind |-> kind, pivot |-> p, direction |-> direction]
  IN IF is_simple_rotation
     THEN simple_rotation(
            [t1 EXCEPT !.rotations = Append(@, event("simple"))],
            p, direction)
     ELSE IF is_double_rotation
     THEN simple_rotation(
            double_rotation(
              [t1 EXCEPT !.rotations = Append(@, event("double"))],
              p, direction),
            p, direction)
     ELSE climb_eager(t1, p, t1.parent[p])

(* Variant: the loop does not break after a rotation, the climb goes on    *)
(* from the former pivot.                                                  *)
RECURSIVE climb_without_break(_, _, _)
climb_without_break(t, parent_child, p) ==
  IF p = None \/ t.panicked THEN t
  ELSE
  LET direction == get_directions(t, p, parent_child)
      additional_depth == IF direction = Left THEN -1 ELSE 1
      new_depth == t.one_side_depth[p] + additional_depth
      t1 == [t EXCEPT !.one_side_depth = [@ EXCEPT ![p] = new_depth]]
      child_depth == t1.one_side_depth[parent_child]
      is_simple_rotation == \/ new_depth >= 2 /\ child_depth > 0
                            \/ new_depth <= -2 /\ child_depth < 0
      is_double_rotation == \/ new_depth >= 2 /\ child_depth < 0
                            \/ new_depth <= -2 /\ child_depth > 0
      event(kind) == [kind |-> kind, pivot |-> p, direction |-> direction]
      t2 == IF is_simple_rotation
            THEN simple_rotation(
                   [t1 EXCEPT !.rotations = Append(@, event("simple"))],
                   p, direction)
            ELSE IF is_double_rotation
            THEN simple_rotation(
                   double_rotation(
                     [t1 EXCEPT !.rotations = Append(@, event("double"))],
                     p, direction),
                   p, direction)
            ELSE t1
  IN climb_without_break(t2, p, t2.parent[p])

(* The while loop of update_depth: parent_child is the node the climb came *)
(* from, p its parent (None ends the loop).                                *)
RECURSIVE climb(_, _, _)
climb(t, parent_child, p) ==
  IF p = None THEN t
  ELSE
  LET direction == get_directions(t, p, parent_child)
      additional_depth == IF direction = Left THEN -1 ELSE 1
      new_depth == t.one_side_depth[p] + additional_depth
      t1 == [t EXCEPT !.one_side_depth = [@ EXCEPT ![p] = new_depth]]
      child_depth == t1.one_side_depth[parent_child]
      is_simple_rotation == \/ new_depth >= 2 /\ child_depth > 0
                            \/ new_depth <= -2 /\ child_depth < 0
      is_double_rotation == \/ new_depth >= 2 /\ child_depth < 0
                            \/ new_depth <= -2 /\ child_depth > 0
      event(kind) == [kind |-> kind, pivot |-> p, direction |-> direction]
  IN IF is_simple_rotation
     THEN simple_rotation(
            [t1 EXCEPT !.rotations = Append(@, event("simple"))],
            p, direction)
     ELSE IF is_double_rotation
     THEN simple_rotation(
            double_rotation(
              [t1 EXCEPT !.rotations = Append(@, event("double"))],
              p, direction),
            p, direction)
     ELSE climb(t1, p, t1.parent[p])

update_depth(t, inserted_node) ==
  climb(t, inserted_node, t.parent[inserted_node])

(* The part of insert before update_depth: the new node is created with   *)
(* its parent link, put into the slot the loop has found, and registered   *)
(* in the index.                                                           *)
insert_leaf(t, slot, new_id, v) ==
  LET node == Len(t.id) + 1
  IN [t EXCEPT
        !.id = Append(@, new_id),
        !.value = Append(@, v),
        !.one_side_depth = Append(@, 0),
        !.parent = Append(@, slot.parent),
        !.nodes = [Append(@, <<None, None>>)
                     EXCEPT ![slot.parent][slot.direction] = node],
        !.tree = [k \in DOMAIN @ \cup {new_id} |->
                    IF k = new_id THEN node ELSE @[k]],
        !.rotations = <<>>]

insert(t, new_id, v) ==
  LET slot == placement(t, t.id[t.head], v)
      node == Len(t.id) + 1
  IN IF ~slot.found THEN [t EXCEPT !.panicked = TRUE, !.rotations = <<>>]
     ELSE update_depth(insert_leaf(t, slot, new_id, v), node)

(* ---------------- binary_search_for_tree ---------------- *)

(* Variant: the comparison is reversed, larger values are looked for on    *)
(* the left.                                                               *)
RECURSIVE search_loop_reversed(_, _, _, _)
search_loop_reversed(t, current_node, desired_value, iterations) ==
  IF iterations > Len(t.id) THEN [ended |-> FALSE, node |-> None]
  ELSE IF t.value[current_node] = desired_value
  THEN [ended |-> TRUE, node |-> current_node]
  ELSE LET direction == IF t.value[current_node] >= desired_value
                        THEN Right ELSE Left
           looked_up == get(t, t.id[current_node])
       IN IF looked_up = None THEN [ended |-> TRUE, node |-> None]
          ELSE LET next_node == t.nodes[looked_up][direction]
               IN IF next_node = None THEN [ended |-> TRUE, node |-> None]
                  ELSE search_loop_reversed(t, next_node, desired_value,
                                            iterations + 1)

(* The loop of binary_search_for_tree, from current_node.  A loop that has *)
(* run more often than there are nodes is reported as not ended.           *)
RECURSIVE search_loop(_, _, _, _)
search_loop(t, current_node, desired_value, iterations) ==
  IF iterations > Len(t.id) THEN [ended |-> FALSE, node |-> None]
  ELSE IF t.value[current_node] = desired_value
  THEN [ended |-> TRUE, node |-> current_node]
  ELSE LET direction == IF t.value[current_node] <= desired_value
                        THEN Right ELSE Left
           looked_up == get(t, t.id[current_node])
       IN IF looked_up = None THEN [ended |-> TRUE, node |-> None]
          ELSE LET next_node == t.nodes[looked_up][direction]
               IN IF next_node = None THEN [ended |-> TRUE, node |-> None]
                  ELSE search_loop(t, next_node, desired_value,
                                   iterations + 1)

binary_search_for_tree(t, desired_value) ==
  search_loop(t, t.head, desired_value, 1)

(* ---------------- binary_search ---------------- *)

(* usize arithmetic.  The width is that of a 16-bit target, the narrowest  *)
(* Rust has; the wider ones differ only in the value a wrapped index has,  *)
(* which is past the end of any list here in each of them.  A build with   *)
(* overflow checks panics where one without them wraps.                    *)
usize_BITS == 16

usize_MAX == 2^usize_BITS - 1

usize_sub(a, b, overflow_checks) ==
  IF a >= b THEN [ok |-> TRUE, v |-> a - b]
  ELSE IF overflow_checks THEN [ok |-> FALSE, v |-> 0]
  ELSE [ok |-> TRUE, v |-> (a - b + usize_MAX + 1) % (usize_MAX + 1)]

usize_add(a, b, overflow_checks) ==
  IF a + b <= usize_MAX THEN [ok |-> TRUE, v |-> a + b]
  ELSE IF overflow_checks THEN [ok |-> FALSE, v |-> 0]
  ELSE [ok |-> TRUE, v |-> (a + b) % (usize_MAX + 1)]

(* What a call comes to: Some(index), None, a panic, or a loop that        *)
(* returns to a state (low, high) it was in before and so never ends.      *)
Some(index) == [outcome |-> "some", index |-> index]

NoneFound == [outcome |-> "none", index |-> 0]

Panic == [outcome |-> "panic", index |-> 0]

Endless == [outcome |-> "endless", index |-> 0]

(* list[mid] of the source is list[mid + 1] here: sequences start at 1. *)
RECURSIVE binary_search_loop(_, _, _, _, _, _)
binary_search_loop(list, element, low, high, overflow_checks, seen) ==
  LET sum == usize_add(low, high, overflow_checks)
      mid == sum.v \div 2
      lower == usize_sub(mid, 1, overflow_checks)
      upper == usize_add(mid, 1, overflow_checks)
  IN IF <<low, high>> \in seen THEN Endless
     ELSE IF ~sum.ok THEN Panic
     ELSE IF low = high THEN NoneFound
     ELSE IF mid >= Len(list) THEN Panic
     ELSE IF element = list[mid + 1] THEN Some(mid)
     ELSE IF element < list[mid + 1]
     THEN IF ~lower.ok THEN Panic
          ELSE binary_search_loop(list, element, low, lower.v,
                                  overflow_checks, seen \cup {<<low, high>>})
     ELSE IF ~upper.ok THEN Panic
          ELSE binary_search_loop(list, element, upper.v, high,
                                  overflow_checks, seen \cup {<<low, high>>})

binary_search(list, element, overflow_checks) ==
  LET high == usize_sub(Len(list), 1, overflow_checks)
  IN IF ~high.ok THEN Panic
     ELSE binary_search_loop(list, element, 0, high.v, overflow_checks, {})

(* The binary_search of src/src/algorithms/src/lib.rs: low = high is       *)
(* tested before mid is computed, and the middle entry is compared with    *)
(* > and < in turn.                                                        *)
RECURSIVE lib_binary_search_loop(_, _, _, _, _, _)
lib_binary_search_loop(list, element, low, high, overflow_checks, seen) ==
  LET sum == usize_add(low, high, overflow_checks)
      mid == sum.v \div 2
      lower == usize_sub(mid, 1, overflow_checks)
      upper == usize_add(mid, 1, overflow_checks)
  IN IF <<low, high>> \in seen THEN Endless
     ELSE IF low = high THEN NoneFound
     ELSE IF ~sum.ok THEN Panic
     ELSE IF mid >= Len(list) THEN Panic
     ELSE IF list[mid + 1] > element
     THEN IF ~lower.ok THEN Panic
          ELSE lib_binary_search_loop(list, element, low, lower.v,
                                      overflow_checks,
                                      seen \cup {<<low, high>>})
     ELSE IF list[mid + 1] < element
     THEN IF ~upper.ok THEN Panic
          ELSE lib_binary_search_loop(list, element, upper.v, high,
                                      overflow_checks,
                                      seen \cup {<<low, high>>})
     ELSE Some(mid)

lib_binary_search(list, element, overflow_checks) ==
  LET high == usize_sub(Len(list), 1, overflow_checks)
  IN IF ~high.ok THEN Panic
     ELSE lib_binary_search_loop(list, element, 0, high.v,
                                 overflow_checks, {})

(* ---------------- Queue ---------------- *)

(* A queue is its head and tail links and the arena of its list nodes; a   *)
(* node is its value and its next link.                                    *)
new == [head |-> None, tail |-> None, nodes |-> <<>>]

(* Variant: the new node goes to the front of the list. *)
add_front(q, v) ==
  LET item == Len(q.nodes) + 1
  IN [q EXCEPT !.nodes = Append(q.nodes, [value |-> v, next |-> q.head]),
               !.head = item,
               !.tail = IF q.tail # None THEN @ ELSE item]

add(q, v) ==
  LET item == Len(q.nodes) + 1
      appended == Append(q.nodes, [value |-> v, next |-> None])
  IN IF q.tail # None
     THEN [q EXCEPT !.nodes = [appended EXCEPT ![q.tail].next = item],
                    !.tail = item]
     ELSE [q EXCEPT !.nodes = appended, !.head = item, !.tail = item]

RECURSIVE append(_, _)
append(q, slice) ==
  IF slice = <<>> THEN q
  ELSE append(add(q, Head(slice)), Tail(slice))

(* take: the queue afterwards and the value returned (None: nothing). *)
take(q) ==
  IF q.head # None
  THEN LET first == q.head
           v == q.nodes[first].value
           next == q.nodes[first].next
       IN [queue |-> [q EXCEPT !.nodes = [@ EXCEPT ![first].next = None],
                               !.tail = IF next = None THEN None ELSE @,
                               !.head = next],
           value |-> v]
  ELSE [queue |-> q, value |-> None]

from(slice) == append(new, slice)

(* ---------------- breadth_first_search ---------------- *)

(* A graph maps the ids of its nodes to the nodes; a node is its item,     *)
(* given as what the predicate says of it, and its nodes: <<>> for None,   *)
(* <<list>> for Some(list), the list holding the ids of the nodes that it  *)
(* points to.  The value a call comes to is found (a node, by its id) and  *)
(* the nodes expanded on the way, in order.                                *)
Found(node, expanded) ==
  [outcome |-> "some", index |-> node, expanded |-> expanded]

NotFound(expanded) ==
  [outcome |-> "none", index |-> 0, expanded |-> expanded]

StillSearching(expanded) ==
  [outcome |-> "endless", index |-> 0, expanded |-> expanded]

(* Variant: a node tested is not logged as checked. *)
checked_insert_nothing(checked_nodes, queue_item) == checked_nodes

checked_insert(checked_nodes, queue_item) == checked_nodes \cup {queue_item}

(* Variant: the nodes a node points to go in front of the waiting ones. *)
RECURSIVE bfs_loop_depth_first(_, _, _, _, _)
bfs_loop_depth_first(graph, q, checked_nodes, expanded, steps) ==
  LET taking == take(q)
      queue_item == taking.value
      ahead == IF graph[queue_item].nodes # <<>>
               THEN from(graph[queue_item].nodes[1])
               ELSE new
      RECURSIVE rest(_, _)
      rest(from_q, to_q) ==
        LET t == take(from_q)
        IN IF t.value = None THEN to_q
           ELSE rest(t.queue, add(to_q, t.value))
  IN IF steps = 0 THEN StillSearching(expanded)
     ELSE IF queue_item = None THEN NotFound(expanded)
     ELSE IF queue_item \in checked_nodes
     THEN bfs_loop_depth_first(graph, taking.queue, checked_nodes,
                               expanded, steps - 1)
     ELSE IF graph[queue_item].item THEN Found(queue_item, expanded)
     ELSE bfs_loop_depth_first(graph, rest(taking.queue, ahead),
                               checked_insert(checked_nodes, queue_item),
                               Append(expanded, queue_item), steps - 1)

(* The while loop; steps is the number of takes still allowed, so that a   *)
(* loop that does not end shows as such.                                   *)
RECURSIVE bfs_loop(_, _, _, _, _)
bfs_loop(graph, q, checked_nodes, expanded, steps) ==
  LET taking == take(q)
      queue_item == taking.value
  IN IF steps = 0 THEN StillSearching(expanded)
     ELSE IF queue_item = None THEN NotFound(expanded)
     ELSE IF queue_item \in checked_nodes
     THEN bfs_loop(graph, taking.queue, checked_nodes, expanded, steps - 1)
     ELSE IF graph[queue_item].item THEN Found(queue_item, expanded)
     ELSE bfs_loop(graph,
                   IF graph[queue_item].nodes # <<>>
                   THEN append(taking.queue, graph[queue_item].nodes[1])
                   ELSE taking.queue,
                   checked_insert(checked_nodes, queue_item),
                   Append(expanded, queue_item), steps - 1)

(* Every take but the last one either skips or tests a node, and there     *)
(* are no more items to take than the head and each node tested once have  *)
(* put in the queue.                                                       *)
MostTakes(graph) ==
  LET n == Cardinality(DOMAIN graph) IN n * n + n + 2

breadth_first_search(head_id, graph) ==
  IF head_id \notin DOMAIN graph THEN NotFound(<<>>)
  ELSE IF graph[head_id].nodes = <<>> THEN NotFound(<<>>)
  ELSE bfs_loop(graph, from(graph[head_id].nodes[1]), {}, <<>>,
                MostTakes(graph))

(* ---------------- dijkstra_search ---------------- *)

(* A weighted graph maps the ids of its nodes to their edges, a list of    *)
(* records of a weight and the id of the node the edge leads to.  cost     *)
(* and parents are the hash maps of the source, functions on the keys      *)
(* they hold.                                                              *)

(* get_lowest: the values it may return (None: stop).  reduce keeps the    *)
(* first of the entries of lowest cost in the order the map iterates in,   *)
(* and that order is unspecified: any of them may be the one.              *)
get_lowest(cost, finish) ==
  IF DOMAIN cost = {} THEN {None}
  ELSE {IF lowest = finish THEN None ELSE lowest :
          lowest \in {k \in DOMAIN cost :
                        \A other \in DOMAIN cost : cost[k] <= cost[other]}}

(* The for loop of calculate_cost from its i-th edge on. *)
RECURSIVE calculate_cost_from(_, _, _, _, _, _)
calculate_cost_from(edges, i, node, current_node_cost, cost, parents) ==
  IF i > Len(edges) THEN [cost |-> cost, parents |-> parents]
  ELSE LET child == edges[i].node
           new_cost_to_child == current_node_cost + edges[i].weight
       IN IF child \in DOMAIN cost
          THEN IF new_cost_to_child < cost[child]
               THEN calculate_cost_from(
                      edges, i + 1, node, current_node_cost,
                      [cost EXCEPT ![child] = new_cost_to_child],
                      IF child \in DOMAIN parents
                      THEN [parents EXCEPT ![child] = node]
                      ELSE parents)
               ELSE calculate_cost_from(edges, i + 1, node,
                                        current_node_cost, cost, parents)
          ELSE calculate_cost_from(
                 edges, i + 1, node, current_node_cost,
                 (child :> new_cost_to_child) @@ cost,
                 (child :> node) @@ parents)

calculate_cost(graph, node, cost, parents) ==
  calculate_cost_from(graph[node], 1, node,
                      IF node \in DOMAIN cost THEN cost[node] ELSE 0,
                      cost, parents)

(* What a call comes to: the chain returned, or a loop that cannot end. *)
Chain(chain) == [outcome |-> "chain", chain |-> chain]

NeverEnds == [outcome |-> "endless", chain |-> <<>>]

Reverse(chain) == [i \in 1..Len(chain) |-> chain[Len(chain) + 1 - i]]

(* build_chain; a parent that is in the chain already leads the loop back  *)
(* to where it was, for good.                                              *)
RECURSIVE build_chain_from(_, _, _)
build_chain_from(chain, next, parents) ==
  IF next \notin DOMAIN parents THEN Chain(Reverse(chain))
  ELSE IF \E i \in 1..Len(chain) : chain[i] = parents[next] THEN NeverEnds
  ELSE build_chain_from(Append(chain, parents[next]), parents[next], parents)

build_chain(finish, parents) == build_chain_from(<<finish>>, finish, parents)

(* The while loop of dijkstra_search and the build_chain after it: the     *)
(* set of what the call may come to.  A round that starts with the maps    *)
(* an earlier round started with can go round for good.                    *)
RECURSIVE dijkstra_loop(_, _, _, _, _)
dijkstra_loop(graph, finish, cost, parents, seen) ==
  IF <<cost, parents>> \in seen THEN {NeverEnds}
  ELSE UNION {
         IF lowest = None THEN {build_chain(finish, parents)}
         ELSE LET calculated == calculate_cost(graph, lowest, cost, parents)
                  removed == [k \in DOMAIN calculated.cost \ {lowest} |->
                                calculated.cost[k]]
              IN dijkstra_loop(graph, finish, removed, calculated.parents,
                               seen \cup {<<cost, parents>>}) :
         lowest \in get_lowest(cost, finish)}

dijkstra_search(graph, start, finish) ==
  LET calculated == calculate_cost(graph, start, <<>>, <<>>)
  IN dijkstra_loop(graph, finish, calculated.cost, calculated.parents, {})

(* ---------------- quick_sort ---------------- *)

(* slice.swap(a, b); the indices are those of the source, from 0, and      *)
(* slice[a] of the source is slice[a + 1] here.                            *)
swap(slice, a, b) ==
  [slice EXCEPT ![a + 1] = slice[b + 1], ![b + 1] = slice[a + 1]]

(* The for loop of partitioning from the index right on. *)
RECURSIVE partitioning_for(_, _, _, _)
partitioning_for(slice, pivot, left, right) ==
  IF right >= Len(slice) - 1 THEN [slice |-> slice, left |-> left]
  ELSE IF slice[right + 1] <= pivot
  THEN partitioning_for(swap(slice, left, right), pivot, left + 1, right + 1)
  ELSE partitioning_for(slice, pivot, left, right + 1)

(* Variant: the pivot is left at the end of the slice. *)
partitioning_pivot_stays_last(slice) ==
  LET pivot_index == Len(slice) \div 2
      pivot == slice[pivot_index + 1]
  IN partitioning_for(swap(slice, pivot_index, Len(slice) - 1), pivot, 0, 0)

(* partitioning: the slice afterwards and the index returned. *)
partitioning(slice) ==
  LET pivot_index == Len(slice) \div 2
      pivot == slice[pivot_index + 1]
      looped == partitioning_for(swap(slice, pivot_index, Len(slice) - 1),
                                 pivot, 0, 0)
  IN [slice |-> swap(looped.slice, looped.left, Len(slice) - 1),
      left |-> looped.left]

(* quick_sort: the slice afterwards and, for the properties, the calls of  *)
(* partitioning made: the slice each got, the slice it left and the index  *)
(* it returned.                                                            *)
RECURSIVE quick_sort(_)
quick_sort(slice) ==
  IF Len(slice) < 2 THEN [slice |-> slice, partitionings |-> <<>>]
  ELSE LET partitioned == partitioning(slice)
           pivot_index == partitioned.left
           lower == quick_sort(SubSeq(partitioned.slice, 1, pivot_index))
           upper == quick_sort(SubSeq(partitioned.slice, pivot_index + 2,
                                      Len(slice)))
       IN [slice |-> lower.slice \o <<partitioned.slice[pivot_index + 1]>>
                       \o upper.slice,
           partitionings |->
             <<[before |-> slice, after |-> partitioned.slice,
                pivot_index |-> pivot_index]>>
             \o lower.partitionings \o upper.partitionings]

(* ---------------- selection_sort ---------------- *)

(* The key function f is a function on the elements; an Order is "Asc" or  *)
(* "Desc"; the indices are those of the source, from 0.                    *)

(* Variant: the order asked for is not looked at, the least key is sought. *)
RECURSIVE selection_for_next_asc_only(_, _, _, _, _)
selection_for_next_asc_only(list, order, f, smallest, next) ==
  IF next >= Len(list) THEN smallest
  ELSE IF f[list[smallest + 1]] > f[list[next + 1]]
  THEN selection_for_next_asc_only(list, order, f, next, next + 1)
  ELSE selection_for_next_asc_only(list, order, f, smallest, next + 1)

(* The inner for loop from the index next on: the index smallest ends at. *)
RECURSIVE selection_for_next(_, _, _, _, _)
selection_for_next(list, order, f, smallest, next) ==
  IF next >= Len(list) THEN smallest
  ELSE IF order = "Desc" /\ f[list[smallest + 1]] < f[list[next + 1]]
  THEN selection_for_next(list, order, f, next, next + 1)
  ELSE IF order = "Asc" /\ f[list[smallest + 1]] > f[list[next + 1]]
  THEN selection_for_next(list, order, f, next, next + 1)
  ELSE selection_for_next(list, order, f, smallest, next + 1)

(* The outer for loop from the index current on. *)
RECURSIVE selection_for_current(_, _, _, _)
selection_for_current(list, order, f, current) ==
  IF current >= Len(list) THEN list
  ELSE selection_for_current(
         swap(list, current,
              selection_for_next(list, order, f, current, current + 1)),
         order, f, current + 1)

selection_sort_by_key(list, order, f) ==
  selection_for_current(list, order, f, 0)

selection_sort(list, order) ==
  selection_sort_by_key(list, order,
                        [x \in {list[i] : i \in 1..Len(list)} |-> x])

(* ---------------- BasicTree ---------------- *)

(* A BasicTree is its head, its index (id -> node) and the arena of its    *)
(* nodes: id, parent, value and the list of child nodes of each; panicked  *)
(* tells that a call has aborted.                                          *)
basic_from_head(head_id, head_value) ==
  [head |-> 1, tree |-> (head_id :> 1), id |-> <<head_id>>,
   parent |-> <<None>>, value |-> <<head_value>>, nodes |-> << <<>> >>,
   panicked |-> FALSE]

basic_get(t, node_id) ==
  IF node_id \in DOMAIN t.tree THEN t.tree[node_id] ELSE None

(* The Some(parent) arm of insert: the new leaf goes under the node. *)
basic_insert_under(t, node_parent, new_id, new_value) ==
  LET node == Len(t.id) + 1
  IN [t EXCEPT !.id = Append(@, new_id),
               !.parent = Append(@, node_parent),
               !.value = Append(@, new_value),
               !.nodes = Append([@ EXCEPT ![node_parent] = Append(@, node)],
                                <<>>),
               !.tree = (new_id :> node) @@ @]

(* Variant: a leaf whose parent is not in the index goes under the head. *)
basic_insert_lenient(t, new_id, parent_id, new_value) ==
  LET node_parent == basic_get(t, parent_id)
  IN IF node_parent = None
     THEN basic_insert_under(t, t.head, new_id, new_value)
     ELSE basic_insert_under(t, node_parent, new_id, new_value)

basic_insert(t, new_id, parent_id, new_value) ==
  LET node_parent == basic_get(t, parent_id)
  IN IF node_parent = None
     THEN [t EXCEPT !.panicked = TRUE]
     ELSE basic_insert_under(t, node_parent, new_id, new_value)

NoInsert == [called |-> FALSE, id |-> None, parent_id |-> None]

BasicRest ==
  /\ basic_tree = basic_from_head(1, 1)
  /\ basic_call = NoInsert

BasicIdle == UNCHANGED basicVars

(* ---------------- the parts a specification leaves alone -------------- *)

NoTake == [called |-> FALSE, value |-> None, pending |-> 0,
           drained |-> FALSE]

NoInput == [function |-> "none"]

NoOutput == [returned |-> FALSE]

RestInit ==
  /\ queue = new
  /\ added = <<>>
  /\ taken = <<>>
  /\ took = NoTake
  /\ input = NoInput
  /\ output = NoOutput
  /\ BasicRest

RestIdle == UNCHANGED <<queueVars, callVars, basicVars>>

(* ---------------- the state machine ---------------- *)

NoSearch == [called |-> FALSE, desired_value |-> 0,
             result |-> [ended |-> TRUE, node |-> None]]

NoCall == [called |-> FALSE, node_id |-> None, result |-> None]

(* Ids are unique across the tree: the head takes the first or the last id *)
(* of the pool, and every insert the smallest id not used yet.             *)
NewIds(used) ==
  LET free == Ids \ used
  IN IF used = {}
     THEN {k \in free : (\A j \in free : k <= j) \/ (\A j \in free : k >= j)}
     ELSE {k \in free : \A j \in free : k <= j}

Store(t) ==
  /\ head' = t.head
  /\ tree' = t.tree
  /\ id' = t.id
  /\ value' = t.value
  /\ one_side_depth' = t.one_side_depth
  /\ parent' = t.parent
  /\ nodes' = t.nodes
  /\ panicked' = t.panicked
  /\ rotations' = t.rotations

Construct(t) ==
  /\ head = t.head
  /\ tree = t.tree
  /\ id = t.id
  /\ value = t.value
  /\ one_side_depth = t.one_side_depth
  /\ parent = t.parent
  /\ nodes = t.nodes
  /\ panicked = t.panicked
  /\ rotations = t.rotations

Init ==
  \E head_id \in NewIds({}), head_value \in Values :
    /\ Construct(from_head(head_id, head_value))
    /\ history = << <<head_id, head_value>> >>
    /\ ret = NoCall
    /\ pos = 0
    /\ sought = NoSearch
    /\ RestInit

Insert(new_id, v) ==
  /\ ~panicked
  /\ Len(id) < MaxNodes
  /\ new_id \in NewIds(DOMAIN tree)
  /\ Store(insert(Self, new_id, v))
  /\ history' = Append(history, <<new_id, v>>)
  /\ ret' = NoCall
  /\ UNCHANGED <<pos, sought>>
  /\ RestIdle

(* Variant: the lookup takes the entry out of the index. *)
Get_removes(node_id) ==
  /\ ~panicked
  /\ ret' = [called |-> TRUE, node_id |-> node_id,
             result |-> get(Self, node_id)]
  /\ tree' = [k \in DOMAIN tree \ {node_id} |-> tree[k]]
  /\ UNCHANGED <<head, id, value, one_side_depth, parent, nodes,
                 panicked, rotations, history, pos, sought>>
  /\ RestIdle

Get(node_id) ==
  /\ ~panicked
  /\ ret' = [called |-> TRUE, node_id |-> node_id,
             result |-> get(Self, node_id)]
  /\ UNCHANGED <<treeVars, panicked, rotations, history, pos, sought>>
  /\ RestIdle

Next ==
  \/ \E new_id \in Ids, v \in Values : Insert(new_id, v)
  \/ \E node_id \in Ids : Get(node_id)

Spec == Init /\ [][Next]_vars

(* The keys of tests::should_balance_tree_3, in the order the test inserts *)
(* them; the first is the head.  A run inserts them in this order and may  *)
(* leave any of them out.  The id of a key is its place in the script.     *)
Script == <<60, 50, 40, 30, 20, 10, 9, 70, 80, 90, 100, 65, 66, 67>>

InitScript ==
  /\ Construct(from_head(1, Script[1]))
  /\ history = << <<1, Script[1]>> >>
  /\ ret = NoCall
  /\ pos = 1
  /\ sought = NoSearch
  /\ RestInit

ScriptInsert ==
  /\ ~panicked
  /\ pos < Len(Script)
  /\ Store(insert(Self, pos + 1, Script[pos + 1]))
  /\ history' = Append(history, <<pos + 1, Script[pos + 1]>>)
  /\ pos' = pos + 1
  /\ ret' = NoCall
  /\ UNCHANGED sought
  /\ RestIdle

ScriptSkip ==
  /\ ~panicked
  /\ pos < Len(Script)
  /\ pos' = pos + 1
  /\ UNCHANGED <<treeVars, panicked, rotations, history, ret, sought>>
  /\ RestIdle

NextScript == ScriptInsert \/ ScriptSkip

SpecScript == InitScript /\ [][NextScript]_vars

(* Longer runs over fewer values: from_head and then inserts only, with    *)
(* ids in the order of the calls.                                          *)
MaxDeepNodes == 8
MaxDeepValue == 2

DeepValues == 1..MaxDeepValue

InitDeep ==
  \E head_value \in DeepValues :
    /\ Construct(from_head(1, head_value))
    /\ history = << <<1, head_value>> >>
    /\ ret = NoCall
    /\ pos = 0
    /\ sought = NoSearch
    /\ RestInit

InsertDeep(v) ==
  /\ ~panicked
  /\ Len(id) < MaxDeepNodes
  /\ Store(insert(Self, Len(id) + 1, v))
  /\ history' = Append(history, <<Len(id) + 1, v>>)
  /\ sought' = NoSearch
  /\ UNCHANGED <<ret, pos>>
  /\ RestIdle

(* The values looked for: those a node can hold, one below and one above. *)
SoughtValues == 0..(MaxDeepValue + 1)

Search(desired_value) ==
  /\ ~panicked
  /\ sought' = [called |-> TRUE, desired_value |-> desired_value,
                result |-> binary_search_for_tree(Self, desired_value)]
  /\ UNCHANGED <<treeVars, panicked, rotations, history, ret, pos>>
  /\ RestIdle

NextDeep ==
  \/ \E v \in DeepValues : InsertDeep(v)
  \/ \E desired_value \in SoughtValues : Search(desired_value)

SpecDeep == InitDeep /\ [][NextDeep]_vars

(* ---------------- the queue on its own ---------------- *)

MaxAdded == 4
MaxQueueValue == 3

QueueValues == 1..MaxQueueValue

Slices == UNION {[1..k -> QueueValues] : k \in 0..2}

(* The tree of the other specifications, left alone here. *)
BinarySearchTreeRest ==
  /\ Construct(from_head(1, 1))
  /\ history = << <<1, 1>> >>
  /\ ret = NoCall
  /\ pos = 0
  /\ sought = NoSearch

BinarySearchTreeIdle ==
  UNCHANGED <<treeVars, panicked, rotations, history, ret, pos, sought>>

TreeRest == BinarySearchTreeRest /\ BasicRest

TreeIdle == BinarySearchTreeIdle /\ BasicIdle

InitQueue ==
  /\ \E slice \in Slices :
       /\ queue = from(slice)
       /\ added = slice
  /\ taken = <<>>
  /\ took = NoTake
  /\ input = NoInput
  /\ output = NoOutput
  /\ TreeRest

QAdd(v) ==
  /\ Len(added) < MaxAdded
  /\ queue' = add(queue, v)
  /\ added' = Append(added, v)
  /\ UNCHANGED <<taken, took, callVars>>
  /\ TreeIdle

QAppend(slice) ==
  /\ Len(added) + Len(slice) <= MaxAdded
  /\ queue' = append(queue, slice)
  /\ added' = added \o slice
  /\ UNCHANGED <<taken, took, callVars>>
  /\ TreeIdle

(* took: what the last take returned, how many values were waiting when   *)
(* it was called, and whether some take so far has emptied the queue.      *)
QTake ==
  LET r == take(queue)
  IN /\ queue' = r.queue
     /\ taken' = IF r.value # None THEN Append(taken, r.value) ELSE taken
     /\ took' = [called |-> TRUE, value |-> r.value,
                 pending |-> Len(added) - Len(taken),
                 drained |-> took.drained \/ r.queue.head = None]
     /\ UNCHANGED <<added, callVars>>
     /\ TreeIdle

NextQueue ==
  \/ \E v \in QueueValues : QAdd(v)
  \/ \E slice \in Slices : QAppend(slice)
  \/ QTake

SpecQueue == InitQueue /\ [][NextQueue]_vars

(* ---------------- the free functions, one call each ---------------- *)

QueueRest ==
  /\ queue = new
  /\ added = <<>>
  /\ taken = <<>>
  /\ took = NoTake

QueueIdle == UNCHANGED queueVars

(* The result of a call, with the function that was called. *)
Returned(function, result) ==
  [returned |-> TRUE, function |-> function, result |-> result]

MaxLen == 4
MaxElement == 4

Elements == 1..MaxElement

(* The lists in ascending order, equal entries allowed. *)
SortedLists ==
  {list \in UNION {[1..k -> Elements] : k \in 0..MaxLen} :
     \A i \in 1..(Len(list) - 1) : list[i] <= list[i + 1]}

InitBinarySearch ==
  /\ \E list \in SortedLists, element \in 0..(MaxElement + 1),
        overflow_checks \in BOOLEAN :
       input = [function |-> "binary_search", list |-> list,
                element |-> element, overflow_checks |-> overflow_checks]
  /\ output = NoOutput
  /\ QueueRest
  /\ TreeRest

BinarySearch ==
  /\ input.function = "binary_search"
  /\ ~output.returned
  /\ output' = Returned("binary_search",
                        binary_search(input.list, input.element,
                                      input.overflow_checks))
  /\ UNCHANGED input
  /\ QueueIdle
  /\ TreeIdle

LibBinarySearch ==
  /\ input.function = "binary_search"
  /\ ~output.returned
  /\ output' = Returned("lib::binary_search",
                        lib_binary_search(input.list, input.element,
                                          input.overflow_checks))
  /\ UNCHANGED input
  /\ QueueIdle
  /\ TreeIdle

NextBinarySearch == BinarySearch \/ LibBinarySearch

SpecBinarySearch == InitBinarySearch /\ [][NextBinarySearch]_vars

MaxGraphNodes == 3

GraphNodeIds == 1..MaxGraphNodes

(* The lists of up to two distinct node ids, in ascending order. *)
ChildLists ==
  {list \in UNION {[1..k -> GraphNodeIds] : k \in 0..2} :
     \A i \in 1..(Len(list) - 1) : list[i] < list[i + 1]}

GraphNodes ==
  [item : BOOLEAN, nodes : {<<>>} \cup {<<list>> : list \in ChildLists}]

(* The head is node 1, or an id the graph does not have; the latter with  *)
(* the graphs whose nodes point nowhere only, the graph then being of no   *)
(* account.                                                                *)
InitBreadthFirstSearch ==
  /\ \E graph \in [GraphNodeIds -> GraphNodes],
        head_id \in {1, MaxGraphNodes + 1} :
       /\ head_id = 1 \/ \A node \in GraphNodeIds : graph[node].nodes = <<>>
       /\ input = [function |-> "breadth_first_search", head |-> head_id,
                   graph |-> graph]
  /\ output = NoOutput
  /\ QueueRest
  /\ TreeRest

BreadthFirstSearch ==
  /\ input.function = "breadth_first_search"
  /\ ~output.returned
  /\ output' = Returned("breadth_first_search",
                        breadth_first_search(input.head, input.graph))
  /\ UNCHANGED input
  /\ QueueIdle
  /\ TreeIdle

NextBreadthFirstSearch == BreadthFirstSearch

SpecBreadthFirstSearch ==
  InitBreadthFirstSearch /\ [][NextBreadthFirstSearch]_vars

MaxWeightedNodes == 4
MaxWeight == 2
MaxEdges == 4

WeightedNodeIds == 1..MaxWeightedNodes

Weights == 0..MaxWeight

(* The pairs of nodes an edge may join, and the graph, as insert and       *)
(* connect build it, of the edges drawn: a node's edges are in ascending   *)
(* order of the node they lead to.                                         *)
Pairs == {pair \in WeightedNodeIds \X WeightedNodeIds : pair[1] # pair[2]}

RECURSIVE EdgesOf(_, _, _)
EdgesOf(from_node_id, weight, to_node_id) ==
  IF to_node_id > MaxWeightedNodes THEN <<>>
  ELSE IF <<from_node_id, to_node_id>> \in DOMAIN weight
  THEN <<[weight |-> weight[<<from_node_id, to_node_id>>],
          node |-> to_node_id]>>
       \o EdgesOf(from_node_id, weight, to_node_id + 1)
  ELSE EdgesOf(from_node_id, weight, to_node_id + 1)

WeightedGraph(weight) ==
  [node_id \in WeightedNodeIds |-> EdgesOf(node_id, weight, 1)]

(* The nodes at the end of a path of up to k edges from the start. *)
RECURSIVE PathEnds(_, _, _)
PathEnds(connected, start, k) ==
  IF k = 0 THEN {start}
  ELSE LET nearer == PathEnds(connected, start, k - 1)
       IN nearer \cup {pair[2] : pair \in {p \in connected : p[1] \in nearer}}

(* The calls are those with a finish that a path leads to from the start:  *)
(* with any other the costs of the nodes of a cycle grow round by round    *)
(* for as long as i32 holds them.                                          *)
InitDijkstraSearch ==
  /\ \E connected \in {pairs \in SUBSET Pairs :
                          Cardinality(pairs) <= MaxEdges} :
       \E weight \in [connected -> Weights] :
         \E finish \in PathEnds(connected, 1, MaxWeightedNodes - 1) \ {1} :
           input = [function |-> "dijkstra_search",
                    graph |-> WeightedGraph(weight),
                    start |-> 1, finish |-> finish]
  /\ output = NoOutput
  /\ QueueRest
  /\ TreeRest

DijkstraSearch ==
  /\ input.function = "dijkstra_search"
  /\ ~output.returned
  /\ \E result \in dijkstra_search(input.graph, input.start, input.finish) :
       output' = Returned("dijkstra_search", result)
  /\ UNCHANGED input
  /\ QueueIdle
  /\ TreeIdle

NextDijkstraSearch == DijkstraSearch

SpecDijkstraSearch == InitDijkstraSearch /\ [][NextDijkstraSearch]_vars

MaxSliceLen == 5
MaxSliceValue == 3

SliceValues == 0..MaxSliceValue

Slices_i32 == UNION {[1..k -> SliceValues] : k \in 0..MaxSliceLen}

InitQuickSort ==
  /\ \E slice \in Slices_i32 :
       input = [function |-> "quick_sort", slice |-> slice]
  /\ output = NoOutput
  /\ QueueRest
  /\ TreeRest

QuickSort ==
  /\ input.function = "quick_sort"
  /\ ~output.returned
  /\ output' = Returned("quick_sort", quick_sort(input.slice))
  /\ UNCHANGED input
  /\ QueueIdle
  /\ TreeIdle

NextQuickSort == QuickSort

SpecQuickSort == InitQuickSort /\ [][NextQuickSort]_vars

MaxListLen == 4
MaxKey == 2

Keys == 0..MaxKey

(* Elements with a key and something else to them, as the Book of the      *)
(* tests has: <<key, rest>>.                                               *)
Books == Keys \X {0, 1}

key_of == [book \in Books |-> book[1]]

Orders == {"Asc", "Desc"}

InitSelectionSort ==
  /\ \/ \E list \in UNION {[1..k -> Books] : k \in 0..MaxListLen},
           order \in Orders :
          input = [function |-> "selection_sort_by_key", list |-> list,
                   order |-> order]
     \/ \E list \in UNION {[1..k -> Keys] : k \in 0..MaxListLen},
           order \in Orders :
          input = [function |-> "selection_sort", list |-> list,
                   order |-> order]
  /\ output = NoOutput
  /\ QueueRest
  /\ TreeRest

SelectionSortByKey ==
  /\ input.function = "selection_sort_by_key"
  /\ ~output.returned
  /\ output' = Returned("selection_sort_by_key",
                        [list |-> selection_sort_by_key(input.list,
                                                        input.order, key_of)])
  /\ UNCHANGED input
  /\ QueueIdle
  /\ TreeIdle

SelectionSort ==
  /\ input.function = "selection_sort"
  /\ ~output.returned
  /\ output' = Returned("selection_sort",
                        [list |-> selection_sort(input.list, input.order)])
  /\ UNCHANGED input
  /\ QueueIdle
  /\ TreeIdle

NextSelectionSort == SelectionSortByKey \/ SelectionSort

SpecSelectionSort == InitSelectionSort /\ [][NextSelectionSort]_vars

(* ---------------- the BasicTree on its own ---------------- *)

MaxBasicNodes == 4
MaxBasicId == 3

BasicIds == 1..MaxBasicId

BasicValues == {0, 1}

InitBasicTree ==
  /\ \E head_id \in BasicIds, head_value \in BasicValues :
       basic_tree = basic_from_head(head_id, head_value)
  /\ basic_call = NoInsert
  /\ input = NoInput
  /\ output = NoOutput
  /\ QueueRest
  /\ BinarySearchTreeRest

(* A call that has aborted is the last one. *)
BasicInsert(new_id, parent_id, new_value) ==
  /\ ~basic_tree.panicked
  /\ Len(basic_tree.id) < MaxBasicNodes
  /\ basic_tree' = basic_insert(basic_tree, new_id, parent_id, new_value)
  /\ basic_call' = [called |-> TRUE, id |-> new_id, parent_id |-> parent_id]
  /\ UNCHANGED callVars
  /\ QueueIdle
  /\ BinarySearchTreeIdle

NextBasicTree ==
  \E new_id \in BasicIds, parent_id \in BasicIds,
     new_value \in BasicValues : BasicInsert(new_id, parent_id, new_value)

SpecBasicTree == InitBasicTree /\ [][NextBasicTree]_vars

(* ---------------- what the properties are stated with ---------------- *)

Nodes == 1..Len(id)

Children(n) == {nodes[n][d] : d \in {Left, Right}} \ {None}

(* The nodes of the subtree below slot content n (None: the empty one),    *)
(* following child links for at most k levels.                             *)
RECURSIVE SubtreeUpTo(_, _)
SubtreeUpTo(n, k) ==
  IF n = None \/ k = 0 THEN {}
  ELSE {n} \cup SubtreeUpTo(nodes[n][Left], k - 1)
           \cup SubtreeUpTo(nodes[n][Right], k - 1)

Subtree(n) == SubtreeUpTo(n, Len(id))

Reachable == Subtree(head)

(* Number of nodes on the longest downward path from n, from the links.    *)
RECURSIVE HeightUpTo(_, _)
HeightUpTo(n, k) ==
  IF n = None \/ k = 0 THEN 0
  ELSE LET l == HeightUpTo(nodes[n][Left], k - 1)
           r == HeightUpTo(nodes[n][Right], k - 1)
       IN 1 + (IF l >= r THEN l ELSE r)

Height(n) == HeightUpTo(n, Len(id))

(* Left subtree, node, right subtree. *)
RECURSIVE InOrderUpTo(_, _)
InOrderUpTo(n, k) ==
  IF n = None \/ k = 0 THEN <<>>
  ELSE InOrderUpTo(nodes[n][Left], k - 1) \o <<n>>
         \o InOrderUpTo(nodes[n][Right], k - 1)

InOrder == InOrderUpTo(head, Len(id))

Slots == {<<n, d>> \in Nodes \X {Left, Right} : nodes[n][d] # None}

HistoryValues == [i \in DOMAIN history |-> history[i][2]]

Rotated(kind) == \E i \in DOMAIN rotations : rotations[i].kind = kind

(* ---------------- C1 ---------------- *)

(* C1: after each completed insert every node's stored balance counter     *)
(* (one_side_depth) is -1, 0 or 1.                                         *)
C1_BalanceCounterInRange ==
  \A n \in Nodes : one_side_depth[n] \in {-1, 0, 1}

(* ---------------- C2 ---------------- *)

(* C2: after each completed insert, for every node the heights of its left *)
(* and right subtrees, computed from the child links, differ by at most 1. *)
C2_HeightBalanced ==
  \A n \in Reachable :
    LET diff == Height(nodes[n][Right]) - Height(nodes[n][Left])
    IN diff \in {-1, 0, 1}

(* ---------------- C3 ---------------- *)

(* C3: after each completed insert the in-order traversal from head visits *)
(* the values in non-decreasing order.                                     *)
C3_InOrderSorted ==
  \A i \in 1..(Len(InOrder) - 1) :
    value[InOrder[i]] <= value[InOrder[i + 1]]

C3_Witness ==
  /\ Rotated("double")
  /\ Len(id) >= 5
  /\ \E n, m \in Nodes : n # m /\ value[n] = value[m]
  /\ Len(InOrder) = Len(id)

(* ---------------- C4 ---------------- *)

(* C4 as stated: for every node, all values in its left subtree are <= its *)
(* value and all values in its right subtree are strictly greater.         *)
C4_StrictRight ==
  \A n \in Reachable :
    /\ \A m \in Subtree(nodes[n][Left]) : value[m] <= value[n]
    /\ \A m \in Subtree(nodes[n][Right]) : value[m] > value[n]

(* C4 amended: for every node, all values in its left subtree are <= its   *)
(* value and all values in its right subtree are >= its value (a rotation  *)
(* can move a node under the right of an equal value).                     *)
C4_OrderedSubtrees ==
  \A n \in Reachable :
    /\ \A m \in Subtree(nodes[n][Left]) : value[m] <= value[n]
    /\ \A m \in Subtree(nodes[n][Right]) : value[m] >= value[n]

C4_Witness ==
  /\ rotations # <<>>
  /\ \E n \in Reachable :
       \E m \in Subtree(nodes[n][Right]) : value[m] = value[n]

(* ---------------- C5 ---------------- *)

Indexed == {tree[k] : k \in DOMAIN tree}

C5_IndexMatchesTree ==
  /\ Reachable = Indexed
  /\ \A k \in DOMAIN tree : id[tree[k]] = k
  /\ Len(InOrder) = Cardinality(Reachable)
  /\ len(Self) = Len(history)

(* C5: after every completed insert the nodes reachable from head through  *)
(* child links are exactly the nodes stored in the id index, each under    *)
(* its own id and met once by the traversal; len() is 1 plus the number of *)
(* inserts and no step decreases it.                                       *)
C5_IndexComplete ==
  C5_IndexMatchesTree
    /\ [][C5_IndexMatchesTree'
            /\ Cardinality(DOMAIN tree') >= Cardinality(DOMAIN tree)]_vars

C5_Witness ==
  /\ Rotated("double")
  /\ Len(id) = MaxNodes
  /\ len(Self) = MaxNodes
  /\ Reachable = Nodes
  /\ \E k \in DOMAIN tree : tree[k] # k

(* ---------------- C6 ---------------- *)

(* C6: after every completed insert, a node held in a child slot of n has  *)
(* n as its parent, and no node is held by more than one slot.             *)
C6_ParentConsistent ==
  /\ \A s \in Slots : parent[nodes[s[1]][s[2]]] = s[1]
  /\ \A s1, s2 \in Slots :
       nodes[s1[1]][s1[2]] = nodes[s2[1]][s2[2]] => s1 = s2

C6_Witness ==
  /\ Rotated("double")
  /\ LET pivot == rotations[1].pivot
     IN /\ parent[pivot] # None
        /\ parent[parent[pivot]] # None
        /\ \E n \in Nodes : Cardinality(Children(n)) = 2

(* ---------------- C7 ---------------- *)

(* C7: the node the last get returned is the node get returns when called  *)
(* again in this state; and for an id X that from_head or insert was       *)
(* called with, with value v, it is a node with id X and value v, also     *)
(* after later inserts and their rotations.                                *)
C7_LookupStable ==
  ret.called =>
    /\ ret.result = get(Self, ret.node_id)
    /\ \A i \in DOMAIN history :
         history[i][1] = ret.node_id =>
           /\ ret.result # None
           /\ id[ret.result] = history[i][1]
           /\ value[ret.result] = history[i][2]

C7_Witness ==
  /\ ret.called
  /\ ret.result # None
  /\ ret.result # head
  /\ \E i \in DOMAIN history :
       /\ i >= 2
       /\ i + 2 <= Len(history)
       /\ history[i][1] = ret.node_id
  /\ rotations # <<>>

(* ---------------- C8 ---------------- *)

PassedIds == {history[i][1] : i \in DOMAIN history}

(* C8: a get call changes neither head, nor the index, nor any node field, *)
(* and for an id never passed to from_head or insert it returns None.      *)
C8_GetIsPure ==
  [][ret'.called =>
       /\ UNCHANGED <<treeVars, panicked>>
       /\ (ret'.node_id \notin PassedIds => ret'.result = None)]_vars

C8_Witness ==
  /\ ret.called
  /\ ret.node_id \notin PassedIds
  /\ ret.result = None
  /\ Len(id) >= 3

(* ---------------- C9 ---------------- *)

(* C9: the tree from_head(id, value) yields has one node, the head, with   *)
(* that id and value, no parent, no children and balance 0, and its index  *)
(* holds exactly that node under id.                                       *)
C9_Singleton ==
  Len(history) = 1 =>
    /\ Nodes = {head}
    /\ id[head] = history[1][1]
    /\ value[head] = history[1][2]
    /\ parent[head] = None
    /\ nodes[head] = <<None, None>>
    /\ one_side_depth[head] = 0
    /\ DOMAIN tree = {history[1][1]}
    /\ tree[history[1][1]] = head
    /\ len(Self) = 1

C9_Witness ==
  /\ Len(history) = 1
  /\ history[1] = <<MaxNodes, MaxValue>>
  /\ ret.called
  /\ ret.result = head

(* ---------------- C10 ---------------- *)

Child(n, d) == IF n = None THEN None ELSE nodes[n][d]

ValueOf(n) == IF n = None THEN None ELSE value[n]

(* C10: from_head with 60 followed by the inserts 50, 40, 30, 20, 10, 9    *)
(* leaves head = 30, 30's children 10 and 50, 10's children 9 and 20.      *)
C10_SevenKeys ==
  HistoryValues = <<60, 50, 40, 30, 20, 10, 9>> =>
    /\ value[head] = 30
    /\ ValueOf(Child(head, Left)) = 10
    /\ ValueOf(Child(head, Right)) = 50
    /\ ValueOf(Child(Child(head, Left), Left)) = 9
    /\ ValueOf(Child(Child(head, Left), Right)) = 20

C10_Witness ==
  /\ HistoryValues = <<60, 50, 40, 30, 20, 10, 9>>
  /\ value[head] = 30
  /\ rotations # <<>>

(* ---------------- C11 ---------------- *)

NodeOf(v) == CHOOSE n \in Nodes : value[n] = v

KidsOf(v) ==
  <<ValueOf(Child(NodeOf(v), Left)), ValueOf(Child(NodeOf(v), Right))>>

(* C11: from_head with 60 followed by the inserts 50, 40, 30, 20, 10, 9,   *)
(* 70, 80, 90, 100, 65, 66, 67 leaves head = 50 with the children the      *)
(* claim lists for 50, 30, 10, 70, 65, 66 and 90, and 40, 9, 20, 60, 80   *)
(* and 100 as leaves.                                                      *)
C11_FourteenKeys ==
  HistoryValues = Script =>
    /\ value[head] = 50
    /\ KidsOf(50) = <<30, 70>>
    /\ KidsOf(30) = <<10, 40>>
    /\ KidsOf(10) = <<9, 20>>
    /\ KidsOf(70) = <<65, 90>>
    /\ KidsOf(65) = <<60, 66>>
    /\ KidsOf(66) = <<None, 67>>
    /\ KidsOf(90) = <<80, 100>>
    /\ \A v \in {40, 9, 20, 60, 80, 100} : KidsOf(v) = <<None, None>>

C11_Witness ==
  /\ HistoryValues = Script
  /\ value[head] = 50
  /\ KidsOf(66) = <<None, 67>>
  /\ pos = Len(Script)

(* ---------------- C12 ---------------- *)

(* Whether every node from p up to the head, reached from the child held   *)
(* in its slot d, would get a counter within -1..1 when d's sign is added. *)
RECURSIVE StaysBalancedFrom(_, _, _)
StaysBalancedFrom(p, d, k) ==
  IF p = None \/ k = 0 THEN TRUE
  ELSE /\ one_side_depth[p] + (IF d = Left THEN -1 ELSE 1) \in {-1, 0, 1}
       /\ LET up == parent[p]
          IN StaysBalancedFrom(
               up, IF up # None /\ nodes[up][Left] = p THEN Left ELSE Right,
               k - 1)

InsertStep == Len(history') = Len(history) + 1

InsertedValue == history'[Len(history')][2]

InsertSlot == placement(Self, id[head], InsertedValue)

BalancedInsert ==
  /\ InsertSlot.found
  /\ StaysBalancedFrom(InsertSlot.parent, InsertSlot.direction, Len(id))

(* C12: an insert whose updated ancestor counters all stay within -1..1    *)
(* rotates nothing: head, every old parent link and every old child link   *)
(* are unchanged, and the only new link is the new leaf in its slot.       *)
C12_NoRotationWhenBalanced ==
  [][InsertStep /\ BalancedInsert =>
       LET leaf == Len(id')
           slot == InsertSlot
       IN /\ rotations' = <<>>
          /\ head' = head
          /\ leaf = Len(id) + 1
          /\ \A n \in Nodes : parent'[n] = parent[n]
          /\ \A n \in Nodes : \A d \in {Left, Right} :
               nodes'[n][d] = IF n = slot.parent /\ d = slot.direction
                              THEN leaf ELSE nodes[n][d]
          /\ nodes'[leaf] = <<None, None>>
          /\ parent'[leaf] = slot.parent]_vars

C12_Witness ==
  /\ rotations = <<>>
  /\ Len(id) >= 5
  /\ nodes[Len(id)] = <<None, None>>
  /\ parent[Len(id)] # None
  /\ parent[parent[Len(id)]] # None
  /\ parent[parent[parent[Len(id)]]] = None
  /\ \A n \in Nodes : one_side_depth[n] \in {-1, 0, 1}

(* ---------------- C13 ---------------- *)

(* h <= 1.44 * log2(n + 2) is n + 2 >= 2^(h / 1.44); the h-th entry is the *)
(* least integer that is at least 2^(h / 1.44):                            *)
(* 1.62, 2.62, 4.24, 6.86, 11.10, 17.96, 29.07, 47.03, 76.11.              *)
LeastNodesPlusTwo == <<2, 3, 5, 7, 12, 18, 30, 48, 77>>

(* C13: the height h of a tree of n nodes (nodes on the longest path from  *)
(* head to a leaf) satisfies h <= 1.44 * log2(n + 2).                      *)
C13_HeightBound ==
  /\ Height(head) <= Len(LeastNodesPlusTwo)
  /\ Len(id) + 2 >= LeastNodesPlusTwo[Height(head)]

(* ---------------- C14 ---------------- *)

C15_Fifo ==
  /\ Len(taken) <= Len(added)
  /\ taken = SubSeq(added, 1, Len(taken))
  /\ took.called => (took.value = None <=> took.pending = 0)
  /\ (queue.head = None) <=> (Len(taken) = Len(added))
  /\ (queue.head = None) <=> (queue.tail = None)

C15_Witness ==
  /\ took.called
  /\ took.drained
  /\ took.value # None
  /\ took.pending >= 2
  /\ Len(taken) = MaxAdded - 1
  /\ \E i, j \in 1..Len(taken) : taken[i] # taken[j]

(* ---------------- C16 ---------------- *)

Searched ==
  /\ input.function = "binary_search"
  /\ output.returned
  /\ input.list # <<>>

Occurs == \E i \in 1..Len(input.list) : input.list[i] = input.element

(* C16: for a non-empty ascending list and an element that occurs in it,   *)
(* binary_search returns Some(i) with list[i] the element.                 *)
C16_FindsPresent ==
  Searched /\ Occurs =>
    /\ output.result.outcome = "some"
    /\ output.result.index < Len(input.list)
    /\ input.list[output.result.index + 1] = input.element

(* ---------------- C17 ---------------- *)

(* C17: for a non-empty ascending list and an element that does not occur  *)
(* in it, binary_search ends and returns None: no panic on an index that   *)
(* went below zero, no loop that goes on with low above high.              *)
C17_AbsentReturnsNone ==
  Searched /\ ~Occurs => output.result.outcome = "none"

(* ---------------- C18 ---------------- *)

PointedTo(node) ==
  IF node \in DOMAIN input.graph /\ input.graph[node].nodes # <<>>
  THEN {input.graph[node].nodes[1][i] :
          i \in 1..Len(input.graph[node].nodes[1])}
  ELSE {}

(* The nodes at the end of a path of exactly k edges from the head. *)
RECURSIVE EdgesAway(_)
EdgesAway(k) ==
  IF k = 0 THEN {input.head}
  ELSE UNION {PointedTo(node) : node \in EdgesAway(k - 1)}

Distances == 1..MaxGraphNodes

ReachedFromHead == UNION {EdgesAway(k) : k \in Distances}

Distance(node) ==
  CHOOSE k \in Distances :
    /\ node \in EdgesAway(k)
    /\ \A j \in 1..(k - 1) : node \notin EdgesAway(j)

Satisfying == {node \in ReachedFromHead : input.graph[node].item}

BreadthFirstSearched ==
  /\ input.function = "breadth_first_search"
  /\ output.returned

(* C18: breadth_first_search ends; it returns None exactly when no node    *)
(* reachable from the head by one or more edges satisfies the predicate,   *)
(* and otherwise a satisfying node no further from the head than any       *)
(* other satisfying node; no node is expanded twice.                       *)
C18_NearestSatisfying ==
  BreadthFirstSearched =>
    /\ output.result.outcome \in {"some", "none"}
    /\ output.result.outcome = "none" <=> Satisfying = {}
    /\ output.result.outcome = "some" =>
         /\ output.result.index \in Satisfying
         /\ \A node \in Satisfying :
              Distance(output.result.index) <= Distance(node)
    /\ \A i, j \in 1..Len(output.result.expanded) :
         i # j => output.result.expanded[i] # output.result.expanded[j]

(* No node points back, and the node found is two edges from the head,    *)
(* behind a node that was expanded.                                        *)
C18_Witness ==
  /\ BreadthFirstSearched
  /\ \A node \in GraphNodeIds : \A next \in PointedTo(node) : next > node
  /\ output.result.outcome = "some"
  /\ Distance(output.result.index) = 2
  /\ Len(output.result.expanded) >= 1

(* ---------------- C19 ---------------- *)

DijkstraSearched ==
  /\ input.function = "dijkstra_search"
  /\ output.returned

(* The weight of the edge from one node to another; none: NoEdge. *)
NoEdge == MaxWeightedNodes * MaxWeight + 1

EdgeWeight(from_node_id, to_node_id) ==
  LET edges == input.graph[from_node_id]
      leading == {i \in 1..Len(edges) : edges[i].node = to_node_id}
  IN IF leading = {} THEN NoEdge
     ELSE edges[CHOOSE i \in leading : TRUE].weight

Least(numbers) == CHOOSE n \in numbers : \A other \in numbers : n <= other

(* The least weight of a path of up to k edges from start to the node;     *)
(* NoEdge or more: there is no such path.                                  *)
RECURSIVE LeastWeight(_, _)
LeastWeight(node, k) ==
  IF k = 0 THEN IF node = input.start THEN 0 ELSE NoEdge
  ELSE Least({LeastWeight(node, k - 1)} \cup
             {LeastWeight(before, k - 1) + EdgeWeight(before, node) :
                before \in WeightedNodeIds \ {node}})

FinishReachable == LeastWeight(input.finish, MaxWeightedNodes - 1) < NoEdge

RECURSIVE ChainWeight(_)
ChainWeight(chain) ==
  IF Len(chain) < 2 THEN 0
  ELSE EdgeWeight(chain[1], chain[2]) + ChainWeight(Tail(chain))

(* C19: when finish can be reached from start, dijkstra_search returns     *)
(* a chain from start to finish along edges of the graph whose weight is   *)
(* the least of any path from start to finish.                             *)
C19_ShortestPath ==
  DijkstraSearched /\ FinishReachable =>
    /\ output.result.outcome = "chain"
    /\ Head(output.result.chain) = input.start
    /\ output.result.chain[Len(output.result.chain)] = input.finish
    /\ \A i \in 1..(Len(output.result.chain) - 1) :
         EdgeWeight(output.result.chain[i], output.result.chain[i + 1])
           < NoEdge
    /\ ChainWeight(output.result.chain)
         = LeastWeight(input.finish, MaxWeightedNodes - 1)

(* ---------------- C20 ---------------- *)

QuickSorted ==
  /\ input.function = "quick_sort"
  /\ output.returned

Permutation(a, b) ==
  /\ Len(a) = Len(b)
  /\ \A v \in SliceValues :
       Cardinality({i \in 1..Len(a) : a[i] = v})
         = Cardinality({i \in 1..Len(b) : b[i] = v})

(* The index returned splits the slice: up to the pivot left of it, above  *)
(* the pivot right of it.                                                  *)
Partitioned(call) ==
  /\ call.pivot_index < Len(call.after)
  /\ Permutation(call.before, call.after)
  /\ \A i \in 1..call.pivot_index :
       call.after[i] <= call.after[call.pivot_index + 1]
  /\ \A i \in (call.pivot_index + 2)..Len(call.after) :
       call.after[i] > call.after[call.pivot_index + 1]

(* C20: after quick_sort the slice is in non-decreasing order and is a     *)
(* permutation of what it was, and every call of partitioning returned an  *)
(* index with nothing above the pivot left of it and nothing but values    *)
(* above the pivot right of it.                                            *)
C20_SortedPermutation ==
  QuickSorted =>
    /\ \A i \in 1..(Len(output.result.slice) - 1) :
         output.result.slice[i] <= output.result.slice[i + 1]
    /\ Permutation(input.slice, output.result.slice)
    /\ \A k \in 1..Len(output.result.partitionings) :
         Partitioned(output.result.partitionings[k])

(* A slice of full length, out of order and with a value twice, sorted     *)
(* with three calls of partitioning or more.                               *)
C20_Witness ==
  /\ QuickSorted
  /\ Len(input.slice) = MaxSliceLen
  /\ input.slice # output.result.slice
  /\ \E i, j \in 1..Len(input.slice) :
       i # j /\ input.slice[i] = input.slice[j]
  /\ Len(output.result.partitionings) >= 3

(* ---------------- C21 ---------------- *)

SelectionSorted ==
  /\ input.function \in {"selection_sort_by_key", "selection_sort"}
  /\ output.returned

SameElements(a, b) ==
  /\ Len(a) = Len(b)
  /\ \A i \in 1..Len(a) :
       Cardinality({j \in 1..Len(a) : a[j] = a[i]})
         = Cardinality({j \in 1..Len(b) : b[j] = a[i]})

(* The key the call sorts element x by. *)
SortKey(x) == IF input.function = "selection_sort_by_key" THEN x[1] ELSE x

(* C21: selection_sort_by_key and selection_sort leave the list a          *)
(* permutation of what it was, with the keys non-decreasing for Asc and    *)
(* non-increasing for Desc.                                                *)
C21_SortedByKey ==
  SelectionSorted =>
    /\ SameElements(input.list, output.result.list)
    /\ \A i \in 1..(Len(output.result.list) - 1) :
         IF input.order = "Asc"
         THEN SortKey(output.result.list[i])
                <= SortKey(output.result.list[i + 1])
         ELSE SortKey(output.result.list[i])
                >= SortKey(output.result.list[i + 1])

(* A list of full length sorted by key in descending order, with two       *)
(* elements of one key that differ, and not in order before.               *)
C21_Witness ==
  /\ SelectionSorted
  /\ input.function = "selection_sort_by_key"
  /\ input.order = "Desc"
  /\ Len(input.list) = MaxListLen
  /\ input.list # output.result.list
  /\ \E i, j \in 1..Len(input.list) :
       /\ input.list[i] # input.list[j]
       /\ input.list[i][1] = input.list[j][1]

(* ---------------- C22 ---------------- *)

(* C22: BasicTree::insert with a parent_id that the index does not hold    *)
(* aborts, and the tree is what it was: the index, the nodes and the       *)
(* child list of every node.                                               *)
C22_AbsentParentAborts ==
  [][(basic_tree' # basic_tree
        /\ basic_call'.parent_id \notin DOMAIN basic_tree.tree) =>
       /\ basic_tree'.panicked
       /\ basic_tree' = [basic_tree EXCEPT !.panicked = TRUE]]_vars

(* An insert under an absent parent has aborted on a tree of three nodes,  *)
(* two of them under one node.                                             *)
C22_Witness ==
  /\ basic_tree.panicked
  /\ basic_call.called
  /\ basic_call.parent_id \notin DOMAIN basic_tree.tree
  /\ Len(basic_tree.id) = 3
  /\ \E node \in 1..Len(basic_tree.id) : Len(basic_tree.nodes[node]) = 2

(* ---------------- C23 ---------------- *)

(* C23: after each completed insert the stored balance counter of every    *)
(* node is the height of its right subtree minus the height of its left    *)
(* subtree, both computed from the child links.                            *)
C23_CounterIsHeightDifference ==
  ~panicked =>
    \A n \in Reachable :
      one_side_depth[n] = Height(nodes[n][Right]) - Height(nodes[n][Left])

(* ---------------- C24 ---------------- *)

SlotOf(p) ==
  IF parent[p] # None /\ nodes[parent[p]][Left] = p THEN Left ELSE Right

(* The climb of an insert, read off the tree before it: from node p, which *)
(* the climb reaches from its side d with child_balance the counter of     *)
(* the node it comes from, upwards to the first ancestor whose updated     *)
(* counter leaves -1..1.                                                   *)
RECURSIVE FirstImbalance(_, _, _, _)
FirstImbalance(p, d, child_balance, k) ==
  IF p = None \/ k = 0
  THEN [found |-> FALSE, pivot |-> None, updated |-> 0, child_balance |-> 0]
  ELSE LET updated == one_side_depth[p] + (IF d = Left THEN -1 ELSE 1)
       IN IF updated \notin {-1, 0, 1}
          THEN [found |-> TRUE, pivot |-> p, updated |-> updated,
                child_balance |-> child_balance]
          ELSE FirstImbalance(parent[p], SlotOf(p), updated, k - 1)

Imbalance ==
  FirstImbalance(InsertSlot.parent, InsertSlot.direction, 0, Len(id))

(* C24: when the climb of an insert brings an ancestor's counter to 2 or   *)
(* -2, the insert rotates at that ancestor: a single rotation when the     *)
(* counter of the child on the heavy side has the same sign or is 0, a     *)
(* double rotation when it has the opposite sign.                          *)
C24_RotationAtImbalance ==
  [][(InsertStep /\ InsertSlot.found /\ Imbalance.found
        /\ Imbalance.updated \in {-2, 2}) =>
       /\ rotations' # <<>>
       /\ rotations'[1].pivot = Imbalance.pivot
       /\ rotations'[1].kind =
            IF Imbalance.child_balance * Imbalance.updated >= 0
            THEN "simple" ELSE "double"]_vars

(* The same with the case left out in which the counter of the child is 0. *)
C24_RotationWhenChildLeans ==
  [][(InsertStep /\ InsertSlot.found /\ Imbalance.found
        /\ Imbalance.updated \in {-2, 2} /\ Imbalance.child_balance # 0) =>
       /\ rotations' # <<>>
       /\ rotations'[1].pivot = Imbalance.pivot
       /\ rotations'[1].kind =
            IF Imbalance.child_balance * Imbalance.updated >= 0
            THEN "simple" ELSE "double"]_vars

(* ---------------- C25 ---------------- *)

(* The nodes above n: its parent, the parent of its parent, and so on.     *)
RECURSIVE AncestorsUpTo(_, _)
AncestorsUpTo(n, k) ==
  IF n = None \/ k = 0 \/ parent[n] = None THEN {}
  ELSE {parent[n]} \cup AncestorsUpTo(parent[n], k - 1)

Ancestors(n) == AncestorsUpTo(n, Len(id))

(* C25: an insert executes at most one rotation event (a single or a       *)
(* double rotation), and once it has, no balance counter of a node that    *)
(* was above the pivot before the insert is modified.                      *)
C25_OneRotationThenStop ==
  [][InsertStep =>
       /\ Len(rotations') <= 1
       /\ rotations' # <<>> =>
            \A a \in Ancestors(rotations'[1].pivot) :
              one_side_depth'[a] = one_side_depth[a]]_vars

(* An insert has rotated at a pivot that was not the root: the node that   *)
(* took the pivot's place has a parent.                                    *)
C25_Witness ==
  /\ ~panicked
  /\ rotations # <<>>
  /\ parent[rotations[1].pivot] # None
  /\ parent[parent[rotations[1].pivot]] # None

(* ---------------- C26 ---------------- *)

InsertedId == history'[Len(history')][1]

(* The tree of an insert step at the moment update_depth starts. *)
Placed == insert_leaf(Self, InsertSlot, InsertedId, InsertedValue)

RotationStep(kind) ==
  /\ InsertStep
  /\ InsertSlot.found
  /\ rotations' # <<>>
  /\ rotations'[1].kind = kind

Pivot == rotations'[1].pivot

(* The counter of the pivot as update_depth has just updated it, and the   *)
(* side it leans to.                                                       *)
PivotBalance == one_side_depth[Pivot] + get_depth(rotations'[1].direction)

HeavySide == IF PivotBalance > 0 THEN Right ELSE Left

C26_WitnessAtHead ==
  /\ ~panicked
  /\ Rotated("simple")
  /\ parent[rotations[1].pivot] = head

(* ---------------- C27 ---------------- *)

(* C27: a double rotation at pivot P with heavy side d, child              *)
(* C = P.children[d] and grandchild G = C.children[opposite(d)] puts G     *)
(* where P was, with P as its opposite(d) child and C as its d child,      *)
(* gives G's former opposite(d) subtree to P.children[d] and G's former d  *)
(* subtree to C.children[opposite(d)], changes no other link, and leaves   *)
(* the counters of P, C and G within -1..1.                                *)
C27_DoubleRotationShape ==
  [][RotationStep("double") =>
       \A placed \in {Placed} :
         LET P == Pivot
             d == HeavySide
             o == get_opposite(d)
             C == placed.nodes[P][d]
             G == placed.nodes[C][o]
             former_parent == placed.parent[P]
             expected_nodes ==
               [n \in DOMAIN placed.nodes |->
                  IF n = G THEN [i \in {Left, Right} |->
                                   IF i = d THEN C ELSE P]
                  ELSE IF n = P THEN [placed.nodes[P] EXCEPT
                                        ![d] = placed.nodes[G][o]]
                  ELSE IF n = C THEN [placed.nodes[C] EXCEPT
                                        ![o] = placed.nodes[G][d]]
                  ELSE IF n = former_parent
                  THEN [i \in {Left, Right} |->
                          IF placed.nodes[n][i] = P THEN G
                          ELSE placed.nodes[n][i]]
                  ELSE placed.nodes[n]]
             expected_parent ==
               [n \in DOMAIN placed.parent |->
                  IF n = G THEN former_parent
                  ELSE IF n = P \/ n = C THEN G
                  ELSE IF n = placed.nodes[G][o] THEN P
                  ELSE IF n = placed.nodes[G][d] THEN C
                  ELSE placed.parent[n]]
         IN /\ C # None
            /\ G # None
            /\ nodes' = expected_nodes
            /\ parent' = expected_parent
            /\ head' = IF former_parent = None THEN G ELSE head
            /\ \A n \in {P, C, G} : one_side_depth'[n] \in {-1, 0, 1}]_vars

(* A double rotation has moved both subtrees of the grandchild. *)
C27_Witness ==
  /\ ~panicked
  /\ Rotated("double")
  /\ LET P == rotations[1].pivot
         d == rotations[1].direction
         G == parent[P]
     IN /\ nodes[P][d] # None
        /\ nodes[nodes[G][d]][get_opposite(d)] # None

(* ---------------- C28 ---------------- *)

(* From node n of tree t up to the head, every node on the way hangs on    *)
(* the side of its parent that value v selects: right when v is greater    *)
(* than the parent's value, left when it is smaller or equal.              *)
RECURSIVE OnWalkUpTo(_, _, _, _)
OnWalkUpTo(t, n, v, k) ==
  IF t.parent[n] = None THEN n = t.head
  ELSE /\ k > 0
       /\ LET above == t.parent[n]
              side == IF v <= t.value[above] THEN Left ELSE Right
          IN /\ t.nodes[above][side] = n
             /\ OnWalkUpTo(t, above, v, k - 1)

OnWalk(t, n, v) == OnWalkUpTo(t, n, v, Len(t.id))

(* C28: the placement step of insert walks from the head, left when the    *)
(* value is smaller than or equal to the node's value and right when it is *)
(* greater, stops at the first empty slot and attaches the new node there  *)
(* as a leaf with counter 0 and its parent link; no link that existed is   *)
(* changed before update_depth starts.                                     *)
C28_Placement ==
  [][InsertStep =>
       \A placed \in {Placed}, slot \in {InsertSlot} :
         LET leaf == Len(id) + 1
         IN /\ slot.found
            /\ nodes[slot.parent][slot.direction] = None
            /\ OnWalk(placed, leaf, InsertedValue)
            /\ placed.head = head
            /\ placed.nodes[leaf] = <<None, None>>
            /\ placed.one_side_depth[leaf] = 0
            /\ placed.parent[leaf] = slot.parent
            /\ placed.id[leaf] = InsertedId
            /\ placed.value[leaf] = InsertedValue
            /\ \A n \in Nodes :
                 /\ placed.parent[n] = parent[n]
                 /\ placed.one_side_depth[n] = one_side_depth[n]
                 /\ \A d \in {Left, Right} :
                      placed.nodes[n][d] =
                        IF n = slot.parent /\ d = slot.direction
                        THEN leaf ELSE nodes[n][d]
            /\ rotations' = <<>> =>
                 /\ nodes' = placed.nodes
                 /\ parent' = placed.parent
                 /\ head' = head
            /\ id' = placed.id
            /\ value' = placed.value
            /\ tree' = placed.tree]_vars

(* A value equal to the value of a node on the walk has gone to the left   *)
(* of that node, two levels below the head, and the insert did not rotate. *)
C28_Witness ==
  /\ ~panicked
  /\ rotations = <<>>
  /\ Len(id) >= 2
  /\ LET leaf == Len(id)
         above == parent[leaf]
     IN /\ above # None
        /\ parent[above] # None
        /\ nodes[leaf] = <<None, None>>
        /\ nodes[above][Left] = leaf
        /\ value[leaf] = value[above]

(* ---------------- C29 ---------------- *)

(* The nodes of tree t above node n, each with the side of it on which n   *)
(* lies.                                                                   *)
RECURSIVE ClimbedUpTo(_, _, _)
ClimbedUpTo(t, n, k) ==
  IF t.parent[n] = None \/ k = 0 THEN {}
  ELSE LET above == t.parent[n]
           side == IF t.nodes[above][Left] = n THEN Left ELSE Right
       IN {<<above, side>>} \cup ClimbedUpTo(t, above, k - 1)

Climbed(t, n) == ClimbedUpTo(t, n, Len(t.id))

(* C29: with pairwise distinct ids every insert runs to completion: the    *)
(* walk finds an empty slot, no unwrap fails, the node is added, and a     *)
(* climb without rotation ends at the root, having moved the counter of    *)
(* every node above the new leaf by one and no other counter.              *)
C29_InsertCompletes ==
  [][InsertStep =>
       /\ InsertSlot.found
       /\ ~panicked'
       /\ Len(id') = Len(id) + 1
       /\ rotations' = <<>> =>
            \A placed \in {Placed} :
              \A climbed \in {Climbed(placed, Len(id) + 1)} :
                /\ \E side \in {Left, Right} : <<head, side>> \in climbed
                /\ \A n \in Nodes :
                     one_side_depth'[n] = one_side_depth[n]
                       + (IF <<n, Left>> \in climbed THEN -1
                          ELSE IF <<n, Right>> \in climbed THEN 1
                          ELSE 0)]_vars

(* An insert into a tree of at least six nodes has completed with a double *)
(* rotation below the head: the walk has looked up several nodes, and the  *)
(* child and the grandchild of the pivot were found.                       *)
C29_Witness ==
  /\ ~panicked
  /\ Len(id) >= 7
  /\ Rotated("double")
  /\ parent[parent[rotations[1].pivot]] # None

(* ---------------- C30 ---------------- *)

(* C30: after every completed insert the head is the only node without a   *)
(* parent and every node is reachable from it; the head is another node    *)
(* than before only when the insert rotated at the previous head.          *)
C30_HeadIsRoot ==
  [][InsertStep =>
       /\ parent'[head'] = None
       /\ \A n \in Nodes' \ {head'} : parent'[n] # None
       /\ Reachable' = Nodes'
       /\ head' # head =>
            /\ rotations' # <<>>
            /\ rotations'[1].pivot = head]_vars

(* A rotation at the head of a tree of at least five nodes has made        *)
(* another node the head.                                                  *)
C30_Witness ==
  /\ ~panicked
  /\ Len(id) >= 5
  /\ rotations # <<>>
  /\ parent[rotations[1].pivot] = head
  /\ parent[head] = None

(* A rotation below the head has left the head in place. *)
C30_WitnessBelowHead ==
  /\ ~panicked
  /\ rotations # <<>>
  /\ parent[parent[rotations[1].pivot]] # None
  /\ Reachable = Nodes

====
